---- MODULE Spec2Model ----
\* Folktale core/lambda/curry and helpers/copy-documentation.
\*
\* The curry engine is modelled as the set of continuations a caller holds
\* (closures of `curried(oldArgs)`) and one action, Call, that applies one of
\* them to a new argument list.  The documentation helper is modelled over a
\* small heap of objects with a reserved metadata slot.
EXTENDS Integers, Sequences, FiniteSets, TLC

\* ---------------------------------------------------------------- bounds
MaxArity == 3      \* largest arity handed to curry
MaxNew   == 2      \* most arguments supplied in one call
MaxConts == 3      \* most continuations the caller keeps
MaxAllocs == 2     \* most metadata objects copyDocumentation allocates

ArgVals == {1, 2}  \* argument values (opaque to the engine)

VARIABLES
  arity,      \* curry's `arity` parameter
  fn,         \* curry's `fn` parameter (a name in Targets)
  conts,      \* the continuations the caller holds (see Cont)
  last,       \* the most recent call and what it did
  envDocs,    \* process.env.FOLKTALE_DOCS
  slot,       \* slot[o]: reference held in o[mm], 0 when undefined
  heap,       \* heap[r]: the key/value map of object r
  allocs,     \* objects allocated by copyDocumentation so far
  lastDoc     \* the most recent copyDocumentation call

curryVars == <<arity, fn, conts, last>>
docVars   == <<envDocs, slot, heap, allocs, lastDoc>>
vars      == <<arity, fn, conts, last,
               envDocs, slot, heap, allocs, lastDoc>>

\* ---------------------------------------------------------------- values
\* Every runtime value is a record of one shape: kind, a, b.
NoSeq == <<>>
Val(kind, a, b) == [kind |-> kind, a |-> a, b |-> b]

\* The functions handed to curry.  The engine never inspects them.
\*   list    = (...xs) => xs                      (result is not callable)
\*   adder   = (...xs) => (...ys) => [xs, ys]     (result is callable)
\*   thrower = (...xs) => { throw }               (raises)
Targets == {"list", "adder", "thrower"}

\* fn(...args)
Apply(f, args) ==
  CASE f = "list"    -> Val("list", args, NoSeq)
    [] f = "adder"   -> Val("closure", args, NoSeq)
    [] f = "thrower" -> Val("thrown", NoSeq, NoSeq)

IsCallable(v) == v.kind \in {"closure", "cont"}
IsFailure(v)  == v.kind \in {"thrown", "TypeError"}

\* v(...args) for a value v that target returned
Invoke(v, args) ==
  IF v.kind = "closure" THEN Val("pair", v.a, args)
  ELSE Val("TypeError", NoSeq, NoSeq)

\* ---------------------------------------------------------------- engine
Min(x, y) == IF x < y THEN x ELSE y

\* Mutant of concat: the new arguments come first.
concatReversed(oldArgs, newArgs) == newArgs \o oldArgs

\* Array.prototype.concat: a new array, receiver first
concat(oldArgs, newArgs) == oldArgs \o newArgs

\* Mutant of slice: the end index is taken inclusive.
sliceInclusive(args, begin, end) == SubSeq(args, begin + 1, Min(end + 1, Len(args)))

\* Array.prototype.slice(begin, end) for 0 <= begin: 0-based, end exclusive
slice(args, begin, end) == SubSeq(args, begin + 1, Min(end, Len(args)))

\* Mutant of oldArgsAfter: the arguments are pushed onto the receiver.
oldArgsPushed(oldArgs, newArgs) == oldArgs \o newArgs

\* what the receiver of concat holds after the call (concat does not mutate)
oldArgsAfter(oldArgs, newArgs) == oldArgs

\* One invocation record of the engine's trace.
Invocation(callee, args) == [callee |-> callee, args |-> args]

\* Mutant of unrollInvoke: a result that is not callable is returned as it is.
unrollInvokeGuarded(fn_, arity_, args) ==
  LET firstFnArgs  == slice(args, 0, arity_)
      secondFnArgs == slice(args, arity_, Len(args))
      V            == Apply(fn_, firstFnArgs)
  IN  IF V.kind = "thrown" \/ ~IsCallable(V)
      THEN [ret |-> V, trace |-> <<Invocation("fn", firstFnArgs)>>]
      ELSE [ret   |-> Invoke(V, secondFnArgs),
            trace |-> <<Invocation("fn", firstFnArgs),
                        Invocation("V", secondFnArgs)>>]

\* unrollInvoke(fn_, arity_, args): fn_(...firstFnArgs)(...secondFnArgs)
unrollInvoke(fn_, arity_, args) ==
  LET firstFnArgs  == slice(args, 0, arity_)
      secondFnArgs == slice(args, arity_, Len(args))
      V            == Apply(fn_, firstFnArgs)
  IN  IF V.kind = "thrown"
      THEN [ret |-> V, trace |-> <<Invocation("fn", firstFnArgs)>>]
      ELSE IF ~IsCallable(V)
      THEN [ret   |-> Val("TypeError", NoSeq, NoSeq),
            trace |-> <<Invocation("fn", firstFnArgs)>>]
      ELSE [ret   |-> Invoke(V, secondFnArgs),
            trace |-> <<Invocation("fn", firstFnArgs),
                        Invocation("V", secondFnArgs)>>]

\* Mutant of curried: waits while argCount <= arity.
curriedOffByOne(arity_, fn_, oldArgs, newArgs) ==
  LET allArgs  == concat(oldArgs, newArgs)
      argCount == Len(allArgs)
  IN  IF argCount <= arity_
      THEN [ret |-> Val("cont", allArgs, NoSeq), trace |-> <<>>]
      ELSE unrollInvoke(fn_, arity_, allArgs)

\* Mutant of curried: compares the length of newArgs, not of allArgs, to arity.
curriedCountsNewOnly(arity_, fn_, oldArgs, newArgs) ==
  LET allArgs  == concat(oldArgs, newArgs)
      argCount == Len(newArgs)
  IN  IF argCount < arity_
      THEN [ret |-> Val("cont", allArgs, NoSeq), trace |-> <<>>]
      ELSE IF argCount = arity_
      THEN [ret |-> Apply(fn_, allArgs), trace |-> <<Invocation("fn", allArgs)>>]
      ELSE unrollInvoke(fn_, arity_, allArgs)

\* Mutant of curried: fn is also invoked while arguments are still missing.
curriedEager(arity_, fn_, oldArgs, newArgs) ==
  LET allArgs  == concat(oldArgs, newArgs)
      argCount == Len(allArgs)
  IN  IF argCount < arity_
      THEN [ret |-> Val("cont", allArgs, NoSeq), trace |-> <<Invocation("fn", allArgs)>>]
      ELSE IF argCount = arity_
      THEN [ret |-> Apply(fn_, allArgs), trace |-> <<Invocation("fn", allArgs)>>]
      ELSE unrollInvoke(fn_, arity_, allArgs)

\* Mutant of curried: a call without arguments forces the invocation.
curriedInvokeOnEmpty(arity_, fn_, oldArgs, newArgs) ==
  LET allArgs  == concat(oldArgs, newArgs)
      argCount == Len(allArgs)
  IN  IF argCount < arity_ /\ newArgs # <<>>
      THEN [ret |-> Val("cont", allArgs, NoSeq), trace |-> <<>>]
      ELSE IF argCount <= arity_
      THEN [ret |-> Apply(fn_, allArgs), trace |-> <<Invocation("fn", allArgs)>>]
      ELSE unrollInvoke(fn_, arity_, allArgs)

\* curried(oldArgs)(...newArgs)
curried(arity_, fn_, oldArgs, newArgs) ==
  LET allArgs  == concat(oldArgs, newArgs)
      argCount == Len(allArgs)
  IN  IF argCount < arity_
      THEN [ret |-> Val("cont", allArgs, NoSeq), trace |-> <<>>]
      ELSE IF argCount = arity_
      THEN [ret |-> Apply(fn_, allArgs), trace |-> <<Invocation("fn", allArgs)>>]
      ELSE unrollInvoke(fn_, arity_, allArgs)

\* curry(arity, fn): return curried([])
curry(arity_, fn_) == <<>>

\* argument lists of at most n values
ArgLists(n) == UNION {[1..k -> ArgVals] : k \in 0..n}

FnCount(trace) == Cardinality({j \in DOMAIN trace : trace[j].callee = "fn"})
VCount(trace)  == Cardinality({j \in DOMAIN trace : trace[j].callee = "V"})

\* A continuation the caller holds: the closure's oldArgs, with the argument
\* groups of the calls that produced it and the invocations of fn they made.
Cont(acc, hist, calls) == [acc |-> acc, hist |-> hist, calls |-> calls]

NoCall == [groups |-> <<>>, ret |-> Val("none", NoSeq, NoSeq), trace |-> <<>>]

InitCurry ==
  /\ arity \in 0..MaxArity
  /\ fn \in Targets
  /\ conts = {Cont(curry(arity, fn), <<>>, 0)}
  /\ last = NoCall

\* The caller applies continuation c to newArgs and keeps the continuation
\* the call returns, if it returns one.
Call(c, newArgs) ==
  LET r    == curried(arity, fn, c.acc, newArgs)
      grps == Append(c.hist, newArgs)
      kept == (conts \ {c}) \cup {[c EXCEPT !.acc = oldArgsAfter(c.acc, newArgs)]}
  IN  /\ last' = [groups |-> grps, ret |-> r.ret, trace |-> r.trace]
      /\ IF r.ret.kind = "cont"
         THEN /\ Cardinality(conts) < MaxConts
              /\ conts' = kept \cup {Cont(r.ret.a, grps, c.calls + FnCount(r.trace))}
         ELSE conts' = kept
      /\ UNCHANGED <<arity, fn>>

NextCurry ==
  \E c \in conts : \E newArgs \in ArgLists(MaxNew) :
    Call(c, newArgs) /\ UNCHANGED docVars

\* ---------------------------------------------------------------- documentation helper
Objs    == {"o1", "o2"}          \* the objects passed as source / target
Keys    == {"a", "b", "c"}       \* property names of a metadata object
DocVals == {1, 2}                \* property values (copied by reference)
EnvVals == {"unset", "false", "true"}

Maps(K) == UNION {[D -> DocVals] : D \in SUBSET K}
EmptyObj == <<>>

\* env(key, default) of folktale/helpers/env: the variable, or default when absent
env(value, default) == IF value = "unset" THEN default ELSE value

\* Mutant of DocsEnabled: compares with the boolean false, never equal to a string.
DocsEnabledAlways(docs) == TRUE

\* docs !== 'false'
DocsEnabled(docs) == docs # "false"

\* x[mm] || {}  (0 stands for undefined)
SlotOrEmpty(h, ref) == IF ref = 0 THEN EmptyObj ELSE h[ref]

\* Mutant of ObjectAssign: the sources are written in the opposite order.
ObjectAssignReversed(t, s1, s2) ==
  LET step(x, y) == [k \in DOMAIN x \cup DOMAIN y |->
                       IF k \in DOMAIN y THEN y[k] ELSE x[k]]
  IN  step(step(t, s2), s1)

\* Object.assign(t, s1, s2): own properties of s1, then of s2, written onto t
ObjectAssign(t, s1, s2) ==
  LET step(x, y) == [k \in DOMAIN x \cup DOMAIN y |->
                       IF k \in DOMAIN y THEN y[k] ELSE x[k]]
  IN  step(step(t, s1), s2)

\* the heap after `target[mm] = Object.assign({}, source[mm] || {}, extensions)`
assignedHeap(h, srcRef, extRef) ==
  Append(h, ObjectAssign(EmptyObj, SlotOrEmpty(h, srcRef), SlotOrEmpty(h, extRef)))

NoDoc == [source |-> "o1", target |-> "o1", docs |-> "none",
          srcRef |-> 0, srcMap |-> EmptyObj, extMap |-> EmptyObj]

InitDocs ==
  /\ envDocs = "unset"
  /\ \E s \in Maps({"a", "b"}), e \in Maps({"b", "c"}) : heap = <<s, e>>
  /\ slot \in [Objs -> {0, 1}]
  /\ allocs = 0
  /\ lastDoc = NoDoc

\* the process environment changes between calls
SetEnv(v) ==
  /\ envDocs # v
  /\ envDocs' = v
  /\ UNCHANGED <<slot, heap, allocs, lastDoc>>

\* copyDocumentation(source, target, extensions); extRef = 0 is the default {}
copyDocumentation(source, target, extRef) ==
  LET docs == env(envDocs, "false")
  IN  /\ lastDoc' = [source |-> source, target |-> target, docs |-> docs,
                     srcRef |-> slot[source],
                     srcMap |-> SlotOrEmpty(heap, slot[source]),
                     extMap |-> SlotOrEmpty(heap, extRef)]
      /\ IF DocsEnabled(docs)
         THEN /\ allocs < MaxAllocs
              /\ heap' = assignedHeap(heap, slot[source], extRef)
              /\ slot' = [slot EXCEPT ![target] = Len(heap')]
              /\ allocs' = allocs + 1
         ELSE UNCHANGED <<slot, heap, allocs>>
      /\ UNCHANGED envDocs

NextDocs ==
  \/ \E v \in EnvVals : SetEnv(v) /\ UNCHANGED curryVars
  \/ \E source \in Objs, target \in Objs, extRef \in 0..Len(heap) :
       copyDocumentation(source, target, extRef) /\ UNCHANGED curryVars

\* ---------------------------------------------------------------- specifications
CurryIdle ==
  /\ arity = 0 /\ fn = "list"
  /\ conts = {Cont(curry(0, "list"), <<>>, 0)} /\ last = NoCall

DocsIdle ==
  /\ envDocs = "unset" /\ heap = <<EmptyObj, EmptyObj>>
  /\ slot = [o \in Objs |-> 0] /\ allocs = 0 /\ lastDoc = NoDoc

Init == InitCurry /\ DocsIdle
Next == NextCurry
Spec == Init /\ [][Next]_vars

DocInit == InitDocs /\ CurryIdle
DocNext == NextDocs
DocSpec == DocInit /\ [][DocNext]_vars

\* ---------------------------------------------------------------- properties of the curry engine
RECURSIVE Flatten(_)
Flatten(groups) ==
  IF groups = <<>> THEN <<>> ELSE Head(groups) \o Flatten(Tail(groups))

Front(q) == SubSeq(q, 1, Len(q) - 1)

Called   == last.groups # <<>>
LastArgs == last.groups[Len(last.groups)]   \* N of the last call
All      == Flatten(last.groups)            \* A ++ N of the last call
First    == SubSeq(All, 1, arity)
Rest     == SubSeq(All, arity + 1, Len(All))

\* What section 4.1 prescribes for accumulated arguments xs.
Prescribed(xs) ==
  IF Len(xs) < arity THEN Val("cont", xs, NoSeq)
  ELSE IF Len(xs) = arity THEN Apply(fn, xs)
  ELSE LET V == Apply(fn, SubSeq(xs, 1, arity))
       IN  IF V.kind = "thrown" THEN V
           ELSE Invoke(V, SubSeq(xs, arity + 1, Len(xs)))

\* C1: one call of the continuation returned by curry(arity, fn) with exactly
\* arity arguments (none when arity is 0) returns what fn returns for those
\* arguments in the same order, after invoking fn with them.
C1_ExactCallEqualsTarget ==
  (Called /\ Len(last.groups) = 1 /\ Len(LastArgs) = arity)
    => /\ last.ret = Apply(fn, LastArgs)
       /\ last.trace = <<Invocation("fn", LastArgs)>>

C1_Witness ==
  /\ arity = 2 /\ fn = "list"
  /\ last.groups = << <<1, 2>> >>
  /\ last.ret = Val("list", <<1, 2>>, NoSeq)

\* C2: for arity >= 1, a chain of calls with non-empty groups that together
\* supply exactly arity arguments ends by returning fn applied to the whole
\* sequence in its original order.
C2_AccumulationAssociative ==
  (/\ Called /\ arity >= 1 /\ Len(All) = arity
   /\ \A j \in DOMAIN last.groups : last.groups[j] # <<>>)
    => last.ret = Apply(fn, All)

C2_Witness ==
  /\ arity = 3 /\ fn = "list"
  /\ last.groups = << <<1>>, <<2>>, <<1>> >>
  /\ last.ret = Val("list", <<1, 2, 1>>, NoSeq)

\* C3: when a call brings the total above arity, fn is invoked with the
\* first arity accumulated arguments and, when its result V is callable, V is
\* invoked exactly once with the remaining ones and its result is returned,
\* whatever calls supplied the arguments.
C3_OverflowUnrollsOnce ==
  (Called /\ Len(All) > arity /\ IsCallable(Apply(fn, First)))
    => /\ last.ret = Invoke(Apply(fn, First), Rest)
       /\ last.trace = <<Invocation("fn", First), Invocation("V", Rest)>>
       /\ VCount(last.trace) = 1

C3_Witness ==
  /\ arity = 2 /\ fn = "adder"
  /\ last.groups = << <<1>>, <<2, 1>> >>
  /\ last.ret = Val("pair", <<1, 2>>, <<1>>)

\* C4: a call invokes fn zero times and returns a continuation holding All
\* when the total stays below arity, exactly once otherwise; no continuation
\* was produced by a chain that invoked fn.
C4_TargetInvocationCount ==
  /\ Called =>
       IF Len(All) < arity
       THEN FnCount(last.trace) = 0 /\ last.ret = Val("cont", All, NoSeq)
       ELSE FnCount(last.trace) = 1
  /\ \A c \in conts : c.calls = 0

C4_Witness ==
  /\ Len(last.groups) = 3 /\ Len(All) = arity
  /\ FnCount(last.trace) = 1
  /\ \E c \in conts : Len(c.hist) = 2 /\ c.calls = 0

\* C5: a call never changes the accumulator of the continuation it is made
\* on: every continuation still holds the arguments it was created with, and
\* every call computes from them and its own arguments alone.
C5_ReuseIndependence ==
  /\ \A c \in conts : c.acc = Flatten(c.hist)
  /\ Called => last.ret = Prescribed(Flatten(Front(last.groups)) \o LastArgs)

C5_Witness ==
  /\ arity = 3 /\ fn = "list"
  /\ last.groups = << <<1>>, <<2, 1>> >>
  /\ last.ret = Val("list", <<1, 2, 1>>, NoSeq)
  /\ \E c \in conts : c.hist = << <<1>>, <<2>> >> /\ c.acc = <<1, 2>>
  /\ \E c \in conts : c.hist = << <<1>> >> /\ c.acc = <<1>>

\* C6 as stated: every continuation handed to the caller holds fewer than
\* arity arguments.
C6_AllBelowArity ==
  \A c \in conts : Len(c.acc) < arity

\* C6 amended: every continuation returned by a call holds fewer than arity
\* arguments, and the one returned by curry holds none (which is below arity
\* unless arity is 0).
C6_ReturnedBelowArity ==
  /\ \A c \in conts :
       IF c.hist = <<>> THEN c.acc = <<>> /\ (arity >= 1 => Len(c.acc) < arity)
       ELSE Len(c.acc) < arity
  /\ last.ret.kind = "cont" => Len(last.ret.a) < arity

C6_Witness ==
  /\ arity = 3
  /\ last.ret.kind = "cont" /\ Len(last.ret.a) = 2
  /\ Cardinality(conts) = 3

\* C7: when a call brings the total above arity and fn returns a value that
\* is not callable, the call fails after one invocation of fn with First, and
\* the continuation that was called is kept with its accumulator unchanged.
C7_OverflowNotCallableFails ==
  (/\ Called /\ Len(All) > arity
   /\ ~IsCallable(Apply(fn, First)) /\ Apply(fn, First).kind # "thrown")
    => /\ last.ret.kind = "TypeError"
       /\ last.trace = <<Invocation("fn", First)>>
       /\ \E c \in conts : c.hist = Front(last.groups) /\ c.acc = Flatten(c.hist)

C7_Witness ==
  /\ arity = 2 /\ fn = "list"
  /\ last.groups = << <<1>>, <<2, 1>> >>
  /\ last.ret.kind = "TypeError"
  /\ \E c \in conts : c.hist = << <<1>> >> /\ c.acc = <<1>>

\* C10: a call without arguments on a waiting continuation invokes nothing and
\* returns a continuation holding the same accumulator; the result of a chain
\* is the one prescribed for its non-empty groups; a chain of empty calls only,
\* for arity >= 1, invokes nothing.
C10_EmptyCallNoProgress ==
  Called =>
    LET A        == Flatten(Front(last.groups))
        nonEmpty == SelectSeq(last.groups, LAMBDA g : g # <<>>)
    IN  /\ (LastArgs = <<>> /\ Len(A) < arity)
             => last.trace = <<>> /\ last.ret = Val("cont", A, NoSeq)
        /\ last.ret = Prescribed(Flatten(nonEmpty))
        /\ (nonEmpty = <<>> /\ arity >= 1)
             => last.trace = <<>> /\ last.ret = Val("cont", <<>>, NoSeq)

C10_Witness ==
  /\ arity = 2 /\ fn = "list"
  /\ last.groups = << <<1>>, <<>>, <<2>> >>
  /\ last.ret = Val("list", <<1, 2>>, NoSeq)

\* ---------------------------------------------------------------- properties of the documentation helper
\* C8: a call made while FOLKTALE_DOCS is unset or "false" changes no
\* metadata slot and no object (target's slot, source and extensions stay as
\* they were), whatever the flag was at earlier calls.
C8_DisabledIsNoOp ==
  [][(envDocs \in {"unset", "false"} /\ envDocs' = envDocs)
       => (slot' = slot /\ heap' = heap)]_vars

C8_Witness ==
  /\ envDocs = "false" /\ lastDoc.docs = "false"
  /\ allocs >= 1
  /\ slot[lastDoc.target] > 2

\* C9: after a call made while the flag is enabled, target's slot holds
\* exactly the keys of source's slot (none when source has no slot) and of
\* extensions, a key of extensions with the value extensions gives it and any
\* other key with source's value; the object in source's slot is as it was,
\* and source still refers to it when source is not the target.
C9_MergeOverlaysExtensions ==
  (lastDoc.docs \notin {"none", "false"}) =>
    LET t == heap[slot[lastDoc.target]]
        s == lastDoc.srcMap
        e == lastDoc.extMap
    IN  /\ slot[lastDoc.target] # 0
        /\ DOMAIN t = DOMAIN s \cup DOMAIN e
        /\ \A k \in DOMAIN t : t[k] = IF k \in DOMAIN e THEN e[k] ELSE s[k]
        /\ lastDoc.srcRef # 0 =>
             /\ DOMAIN heap[lastDoc.srcRef] = DOMAIN s
             /\ \A k \in DOMAIN s : heap[lastDoc.srcRef][k] = s[k]
        /\ lastDoc.source # lastDoc.target => slot[lastDoc.source] = lastDoc.srcRef

C9_Witness ==
  /\ lastDoc.docs = "true"
  /\ lastDoc.source = "o1" /\ lastDoc.target = "o2"
  /\ DOMAIN lastDoc.srcMap = {"a", "b"}
  /\ lastDoc.srcMap["a"] = 1 /\ lastDoc.srcMap["b"] = 2
  /\ DOMAIN lastDoc.extMap = {"b", "c"}
  /\ lastDoc.extMap["b"] = 1 /\ lastDoc.extMap["c"] = 2
  /\ DOMAIN heap[slot["o2"]] = {"a", "b", "c"}
  /\ heap[slot["o2"]]["a"] = 1 /\ heap[slot["o2"]]["b"] = 1 /\ heap[slot["o2"]]["c"] = 2
  /\ slot["o1"] = 1

====
